---- MODULE Spec2Model ----
(***************************************************************************)
(* t2macd: fan control daemon (src/main.rs).  The process checks the host  *)
(* platform, loads /etc/t2macd.json, discovers the fans, and then loops    *)
(* forever: for each fan, read the temperature, compute a speed, write it. *)
(* The file system (config file, fan attribute files, sensor files) is the *)
(* environment; what a read returns and whether a write succeeds are       *)
(* chosen by the environment at the time of the call.                      *)
(***************************************************************************)
EXTENDS Integers, Sequences, FiniteSets

(* ------------------------------ bounds -------------------------------- *)

\* Most paths the fan glob of init_fans may match.
MaxFans == 2
\* Most paths a sensor glob pattern may match.
MaxMatches == 2
\* Most executions of the binary in SpecRestart (the files persist).
MaxRuns == 2

(* ------------------------- text and integers -------------------------- *)

\* A file's text is a sequence of one-character strings.
DigitChars == {"0", "1", "2", "3", "4", "5", "6", "7", "8", "9"}

DigitVal(c) ==
    CASE c = "0" -> 0 [] c = "1" -> 1 [] c = "2" -> 2 [] c = "3" -> 3
      [] c = "4" -> 4 [] c = "5" -> 5 [] c = "6" -> 6 [] c = "7" -> 7
      [] c = "8" -> 8 [] c = "9" -> 9

DigitChar(d) ==
    CASE d = 0 -> "0" [] d = 1 -> "1" [] d = 2 -> "2" [] d = 3 -> "3"
      [] d = 4 -> "4" [] d = 5 -> "5" [] d = 6 -> "6" [] d = 7 -> "7"
      [] d = 8 -> "8" [] d = 9 -> "9"

\* A u32 is held as its 32-bit pattern read as a two's complement integer:
\* v for v < 2^31, v - 2^32 above.  I32Max is 2^31 - 1.
I32Max == 2147483647

\* Unsigned a < b.
ULt(a, b) == IF (a >= 0) = (b >= 0) THEN a < b ELSE b < 0

\* a + b modulo 2^32.
WAdd(a, b) ==
    IF a >= 0 /\ b >= 0
    THEN IF a <= I32Max - b THEN a + b
         ELSE ((a - I32Max) - 1) + ((b - I32Max) - 1)
    ELSE IF a < 0 /\ b < 0
    THEN IF a >= ((0 - I32Max) - b) - 1 THEN a + b
         ELSE ((a + I32Max) + 1) + ((b + I32Max) + 1)
    ELSE a + b

\* -b modulo 2^32.
WNeg(b) == IF b = (0 - I32Max) - 1 THEN b ELSE 0 - b

\* a - b modulo 2^32; the subtraction overflows u32 iff ULt(a, b).
WSub(a, b) == WAdd(a, WNeg(b))

\* Unsigned b >> 1.
UShr1(b) == IF b >= 0 THEN b \div 2 ELSE (I32Max + (b \div 2)) + 1

\* Unsigned x / d, d # 0.
UDiv(x, d) ==
    IF d < 0 THEN (IF ULt(x, d) THEN 0 ELSE 1)
    ELSE IF x >= 0 THEN x \div d
    ELSE LET h  == UShr1(x)
             qh == h \div d
             rh == h % d
             e  == IF rh >= (d - rh) - (x % 2) THEN 1 ELSE 0
         IN  IF qh <= I32Max \div 2 THEN 2 * qh + e
             ELSE 2 * ((qh - I32Max) - 1) + e

\* a * b modulo 2^32.
RECURSIVE WMul(_, _)
WMul(a, b) ==
    IF b = 0 THEN 0
    ELSE LET half == WMul(WAdd(a, a), UShr1(b))
         IN  IF b % 2 = 1 THEN WAdd(half, a) ELSE half

\* The product a * b does not fit in a u32.
MulOverflows(a, b) == a # 0 /\ b # 0 /\ ULt(UDiv(0 - 1, a), b)

\* str::parse::<u32>: an optional '+', then one or more decimal digits, the
\* value at most 2^32 - 1.  acc is the value of the digits read so far.
RECURSIVE ParseDigits(_, _)
ParseDigits(s, acc) ==
    IF s = <<>> THEN [ok |-> TRUE, val |-> acc]
    ELSE IF Head(s) \notin DigitChars THEN [ok |-> FALSE, val |-> 0]
    ELSE LET d == DigitVal(Head(s))
         IN  IF acc < 0 \/ acc > 429496729 \/ (acc = 429496729 /\ d > 5)
             THEN [ok |-> FALSE, val |-> 0]
             ELSE ParseDigits(Tail(s), WAdd(WAdd(5 * acc, 5 * acc), d))

ParseU32(s) ==
    LET t == IF s # <<>> /\ Head(s) = "+" THEN Tail(s) ELSE s
    IN  IF t = <<>> THEN [ok |-> FALSE, val |-> 0] ELSE ParseDigits(t, 0)

\* u32::to_string: the decimal digits, no sign, no padding.
RECURSIVE ToDigits(_)
ToDigits(n) ==
    IF n < 10 THEN <<DigitChar(n)>> ELSE Append(ToDigits(n \div 10), DigitChar(n % 10))

U32ToString(n) ==
    IF n >= 0 THEN ToDigits(n)
    ELSE LET h == UShr1(n)
             q == h \div 5
             r == (h % 5) * 2 + (n % 2)
         IN  Append(ToDigits(q), DigitChar(r))

(* ------------------------------ files --------------------------------- *)

\* A file as a read finds it: st is "ok" (readable), "unreadable" (the read
\* returns an error) or "absent".
File(st, text) == [st |-> st, text |-> text]

NoFile == File("absent", <<>>)

\* What a fan's _max file may hold, as a read finds it.
MaxFiles ==
    { File("unreadable", <<>>),
      File("ok", <<"6", "5", "0", "0", "\n">>),
      File("ok", <<"6", "5", "0", "0">>) }

\* What a fan's _min file may hold: the hardware's lower bound is at most its
\* upper bound.
MinFiles ==
    { File("unreadable", <<>>),
      File("ok", <<"1", "3", "5", "0", "\n">>),
      File("ok", <<"1", "3", "5", "0">>),
      File("ok", <<"6", "5", "0", "0">>) }

\* What a temperature file may hold.
SensorFiles ==
    { File("unreadable", <<>>),
      File("ok", <<"8", "5", "\n">>),
      File("ok", <<"7", "0">>),
      File("ok", <<"8", "0">>),
      File("ok", <<"1", "0", "0">>),
      File("ok", <<"1", "2", "0">>) }

(* ------------------------------ Config --------------------------------- *)

Str(s) == [t |-> "str", s |-> s, n |-> 0]
Num(n) == [t |-> "num", s |-> "", n |-> n]
Member(k, v) == [k |-> k, v |-> v]

\* The text of the config file: wf says whether it is syntactically a JSON
\* object, members are its key/value pairs in file order.
Json(wf, members) == [wf |-> wf, members |-> members]

EmptyText == Json(FALSE, <<>>)

\* struct Config.
Config(min_temp, max_temp) ==
    [fan_curve |-> "LINEAR", min_temp |-> min_temp, max_temp |-> max_temp]

\* The Config that Config::get synthesizes.
DefaultMinTemp == 80
DefaultMaxTemp == 100
DefaultConfig == Config(DefaultMinTemp, DefaultMaxTemp)

\* ConfigToJson with a fault: the two temperatures under each other's key.
ConfigToJsonSwapped(c) ==
    Json(TRUE, << Member("fan_curve", Str(c.fan_curve)),
                  Member("min_temp", Num(c.max_temp)),
                  Member("max_temp", Num(c.min_temp)) >>)

\* serde_json::to_string(&Config): the fields in declaration order.
ConfigToJson(c) ==
    Json(TRUE, << Member("fan_curve", Str(c.fan_curve)),
                  Member("min_temp", Num(c.min_temp)),
                  Member("max_temp", Num(c.max_temp)) >>)

\* The values the text gives for key k, in order.
ValuesOf(text, k) ==
    LET ms == text.members
        at == {i \in 1..Len(ms) : ms[i].k = k}
    IN  {ms[i].v : i \in at}

CountOf(text, k) == Cardinality({i \in 1..Len(text.members) : text.members[i].k = k})

\* serde_json::from_str::<Config>: each field exactly once (unknown keys are
\* skipped), fan_curve a known variant name, the temperatures u32 numbers.
ConfigFromJson(text) ==
    LET one(k) == CountOf(text, k) = 1
        val(k) == CHOOSE v \in ValuesOf(text, k) : TRUE
        u32(k) == val(k).t = "num" /\ val(k).n >= 0
    IN  IF /\ text.wf
           /\ one("fan_curve") /\ one("min_temp") /\ one("max_temp")
           /\ val("fan_curve").t = "str" /\ val("fan_curve").s = "LINEAR"
           /\ u32("min_temp") /\ u32("max_temp")
        THEN [ok |-> TRUE, config |-> Config(val("min_temp").n, val("max_temp").n)]
        ELSE [ok |-> FALSE, config |-> DefaultConfig]

\* ConfigRead with a fault: every read error is taken for a missing file.
ConfigReadAnyErrorNotFound(file) ==
    IF file.st # "ok" THEN [err |-> "NotFound", config |-> DefaultConfig]
    ELSE LET parsed == ConfigFromJson(file.text)
         IN  IF parsed.ok THEN [err |-> "", config |-> parsed.config]
             ELSE [err |-> "ParseError", config |-> DefaultConfig]

\* Config::read: Ok(config), or the ConfigError.
ConfigRead(file) ==
    IF file.st = "absent" THEN [err |-> "NotFound", config |-> DefaultConfig]
    ELSE IF file.st = "unreadable" THEN [err |-> "IoError", config |-> DefaultConfig]
    ELSE LET parsed == ConfigFromJson(file.text)
         IN  IF parsed.ok THEN [err |-> "", config |-> parsed.config]
             ELSE [err |-> "ParseError", config |-> DefaultConfig]

\* Config::write under write outcome w: "ok", "fail" (nothing changed) or
\* "truncated" (the file was created and the write of its text failed).
\* Gives the file afterwards.
ConfigWrite(c, file, w) ==
    IF w = "ok" THEN File("ok", ConfigToJson(c))
    ELSE IF w = "truncated" THEN File("ok", EmptyText)
    ELSE file

WriteOutcomes == {"ok", "fail", "truncated"}

\* ConfigGet with a fault: a failed write of the default is returned as the error.
ConfigGetWriteErrorFatal(file, w) ==
    LET r == ConfigRead(file)
        res(ok, err, c, wrote, werr, f) ==
            [ok |-> ok, err |-> err, config |-> c, wrote |-> wrote, werr |-> werr,
             file |-> f]
    IN  IF r.err = "" THEN res(TRUE, "", r.config, FALSE, "", file)
        ELSE IF r.err = "NotFound" THEN
            res(w = "ok", IF w = "ok" THEN "" ELSE "WriteError", DefaultConfig, TRUE,
                IF w = "ok" THEN "" ELSE "WriteError", ConfigWrite(DefaultConfig, file, w))
        ELSE IF r.err = "IoError" THEN res(FALSE, "IoError", DefaultConfig, FALSE, "", file)
        ELSE res(TRUE, "", DefaultConfig, FALSE, "", file)

\* ConfigGet with a fault: a file that does not parse is replaced by the default,
\* as a missing one is.
ConfigGetOverwritesCorrupt(file, w) ==
    LET r == ConfigRead(file)
        res(ok, err, c, wrote, werr, f) ==
            [ok |-> ok, err |-> err, config |-> c, wrote |-> wrote, werr |-> werr,
             file |-> f]
    IN  IF r.err = "" THEN res(TRUE, "", r.config, FALSE, "", file)
        ELSE IF r.err \in {"NotFound", "ParseError"} THEN
            res(TRUE, "", DefaultConfig, TRUE, IF w = "ok" THEN "" ELSE "WriteError",
                ConfigWrite(DefaultConfig, file, w))
        ELSE res(FALSE, "IoError", DefaultConfig, FALSE, "", file)

\* Config::get on the file, the write (if one is made) ending as w: the
\* returned value (ok and config, or the error), whether a write was
\* attempted and the error it gave, and the file afterwards.
ConfigGet(file, w) ==
    LET r == ConfigRead(file)
        res(ok, err, c, wrote, werr, f) ==
            [ok |-> ok, err |-> err, config |-> c, wrote |-> wrote, werr |-> werr,
             file |-> f]
    IN  IF r.err = "" THEN res(TRUE, "", r.config, FALSE, "", file)
        ELSE IF r.err = "NotFound" THEN
            res(TRUE, "", DefaultConfig, TRUE, IF w = "ok" THEN "" ELSE "WriteError",
                ConfigWrite(DefaultConfig, file, w))
        ELSE IF r.err = "IoError" THEN res(FALSE, "IoError", DefaultConfig, FALSE, "", file)
        ELSE res(TRUE, "", DefaultConfig, FALSE, "", file)

\* The texts the config file may hold when the process starts.
ConfigTexts ==
    { ConfigToJson(DefaultConfig),
      Json(TRUE, << Member("max_temp", Num(100)), Member("note", Str("quiet")),
                    Member("fan_curve", Str("LINEAR")), Member("min_temp", Num(100)) >>),
      Json(TRUE, << Member("fan_curve", Str("LINEAR")), Member("min_temp", Num(100)),
                    Member("max_temp", Num(80)) >>),
      Json(FALSE, << Member("fan_curve", Str("LINEAR")), Member("min_temp", Num(80)) >>),
      Json(TRUE, << Member("fan_curve", Str("LINEAR")), Member("min_temp", Num(80)) >>) }

ConfigFiles ==
    { File("absent", EmptyText), File("unreadable", EmptyText) } \cup { File("ok", t) : t \in ConfigTexts }

(* -------------------------------- Fan ----------------------------------- *)

\* struct Fan; path is the index of the glob match it was built from.
Fan(path, max_speed, min_speed, curve) ==
    [path |-> path, max_speed |-> max_speed, min_speed |-> min_speed, speed_curve |-> curve]

\* A file operation the process performed: op is "read" or "write", obj the
\* file, fan the glob match it belongs to (0: not a fan file).
Io(op, obj, fan) == [op |-> op, obj |-> obj, fan |-> fan]

\* FanNew with a fault: the result of the write to _manual is not looked at.
FanNewIgnoresManualError(i, config, fmax, fmin, mw) ==
    LET pmax == ParseU32(fmax.text)
        pmin == ParseU32(fmin.text)
        none == Fan(i, 0, 0, config.fan_curve)
        rmax == {Io("read", "_max", i)}
        rmin == rmax \cup {Io("read", "_min", i)}
        wman == rmin \cup {Io("write", "_manual", i)}
    IN  IF fmax.st # "ok" THEN [end |-> "err", fan |-> none, io |-> rmax, manual |-> FALSE]
        ELSE IF ~pmax.ok THEN [end |-> "panic", fan |-> none, io |-> rmax, manual |-> FALSE]
        ELSE IF fmin.st # "ok" THEN [end |-> "err", fan |-> none, io |-> rmin, manual |-> FALSE]
        ELSE IF ~pmin.ok THEN [end |-> "panic", fan |-> none, io |-> rmin, manual |-> FALSE]
        ELSE [end |-> "ok", fan |-> Fan(i, pmax.val, pmin.val, config.fan_curve),
              io |-> wman, manual |-> mw]

\* Fan::new on glob match i: fmax and fmin are the _max and _min files as the
\* reads find them, mw says whether the write to _manual succeeds.  end is
\* "ok", "err" (an io::Error returned with ?) or "panic" (unwrap of a failed
\* parse); io is the file operations performed, in any case.
FanNew(i, config, fmax, fmin, mw) ==
    LET pmax == ParseU32(fmax.text)
        pmin == ParseU32(fmin.text)
        none == Fan(i, 0, 0, config.fan_curve)
        rmax == {Io("read", "_max", i)}
        rmin == rmax \cup {Io("read", "_min", i)}
        wman == rmin \cup {Io("write", "_manual", i)}
    IN  IF fmax.st # "ok" THEN [end |-> "err", fan |-> none, io |-> rmax, manual |-> FALSE]
        ELSE IF ~pmax.ok THEN [end |-> "panic", fan |-> none, io |-> rmax, manual |-> FALSE]
        ELSE IF fmin.st # "ok" THEN [end |-> "err", fan |-> none, io |-> rmin, manual |-> FALSE]
        ELSE IF ~pmin.ok THEN [end |-> "panic", fan |-> none, io |-> rmin, manual |-> FALSE]
        ELSE IF ~mw THEN [end |-> "err", fan |-> none, io |-> wman, manual |-> FALSE]
        ELSE [end |-> "ok", fan |-> Fan(i, pmax.val, pmin.val, config.fan_curve),
              io |-> wman, manual |-> TRUE]

\* CalcSpeed with a fault: the ratio is scaled by max_speed - min_speed.
CalcSpeedFullRange(fan, current_temp, config, checks) ==
    LET num   == WSub(current_temp, config.min_temp)
        den   == WSub(config.max_temp, config.min_temp)
        range == WSub(fan.max_speed, fan.min_speed)
        quot  == UDiv(num, den)
        prod  == WMul(quot, range)
        sum   == WAdd(prod, fan.min_speed)
    IN  IF checks /\ ULt(current_temp, config.min_temp) THEN [panic |-> TRUE, val |-> 0]
        ELSE IF checks /\ ULt(config.max_temp, config.min_temp) THEN [panic |-> TRUE, val |-> 0]
        ELSE IF den = 0 THEN [panic |-> TRUE, val |-> 0]
        ELSE IF checks /\ ULt(fan.max_speed, fan.min_speed) THEN [panic |-> TRUE, val |-> 0]
        ELSE IF checks /\ MulOverflows(quot, range) THEN [panic |-> TRUE, val |-> 0]
        ELSE IF checks /\ ULt(sum, prod) THEN [panic |-> TRUE, val |-> 0]
        ELSE [panic |-> FALSE, val |-> sum]

\* Fan::calc_speed.  checks: the build panics on integer overflow (debug
\* profile); otherwise the arithmetic wraps modulo 2^32 (release profile).
\* Division by zero panics in both.
CalcSpeed(fan, current_temp, config, checks) ==
    LET num   == WSub(current_temp, config.min_temp)
        den   == WSub(config.max_temp, config.min_temp)
        range == WSub(fan.max_speed, fan.max_speed)
        quot  == UDiv(num, den)
        prod  == WMul(quot, range)
        sum   == WAdd(prod, fan.min_speed)
    IN  IF checks /\ ULt(current_temp, config.min_temp) THEN [panic |-> TRUE, val |-> 0]
        ELSE IF checks /\ ULt(config.max_temp, config.min_temp) THEN [panic |-> TRUE, val |-> 0]
        ELSE IF den = 0 THEN [panic |-> TRUE, val |-> 0]
        ELSE IF checks /\ ULt(fan.max_speed, fan.max_speed) THEN [panic |-> TRUE, val |-> 0]
        ELSE IF checks /\ MulOverflows(quot, range) THEN [panic |-> TRUE, val |-> 0]
        ELSE IF checks /\ ULt(sum, prod) THEN [panic |-> TRUE, val |-> 0]
        ELSE [panic |-> FALSE, val |-> sum]

(* ------------------------------ sensors -------------------------------- *)

\* The path the loop over the CPU glob leaves in cpu_temp_path: the last
\* match, or the default (empty) path, 0, when nothing matched.
CpuTempPath(matches) == IF matches = <<>> THEN 0 ELSE matches[Len(matches)]

\* MaxTemp with a fault: the comparison the other way round.
MaxTempReversed(cpu_temp, gpu_temp) ==
    IF ULt(gpu_temp, cpu_temp) THEN gpu_temp ELSE cpu_temp

\* The larger of the two readings, as get_current_temp picks it.
MaxTemp(cpu_temp, gpu_temp) == IF ULt(cpu_temp, gpu_temp) THEN gpu_temp ELSE cpu_temp

\* get_current_temp, lines 160-168: the CPU reading.  cpu_n paths match the
\* pattern and cpu_file is the file at the last of them.  end is "ok" or
\* the step that panicked.
ReadCpu(cpu_n, cpu_file) ==
    LET path == CpuTempPath([i \in 1..cpu_n |-> i])
        file == IF path = 0 THEN NoFile ELSE cpu_file
        p    == ParseU32(file.text)
    IN  IF file.st # "ok" THEN [end |-> "cpu_read", val |-> 0]
        ELSE IF ~p.ok THEN [end |-> "cpu_parse", val |-> 0]
        ELSE [end |-> "ok", val |-> p.val]

\* get_current_temp, lines 170-175: the GPU reading.  gpu_lit is the file at
\* the GPU path taken literally: its '*' is not expanded, the path is handed
\* to read_to_string as written.
ReadGpu(gpu_lit) ==
    LET p == ParseU32(gpu_lit.text)
    IN  IF gpu_lit.st # "ok" THEN [end |-> "gpu_read", val |-> 0]
        ELSE IF ~p.ok THEN [end |-> "gpu_parse", val |-> 0]
        ELSE [end |-> "ok", val |-> p.val]

\* The locals of the running get_current_temp call, kept until calc_speed
\* has used its result: the number of paths the CPU pattern matched (until
\* the GPU is read), how far the call got, and the two readings.
Sensors(cpu_n, end, cpu_temp, gpu_temp) ==
    [cpu_n |-> cpu_n, end |-> end, cpu_temp |-> cpu_temp, gpu_temp |-> gpu_temp]

NoSensors == Sensors(0, "none", 0, 0)

(* ------------------------------- state --------------------------------- *)

VARIABLES
    os,               \* env::consts::OS of the build
    overflow_checks,  \* the build panics on integer overflow
    cfg_file,         \* /etc/t2macd.json
    hw_n,             \* number of paths the fan glob matches
    manual,           \* manual[i]: text of fan i's _manual file
    pc,               \* where main is
    exit_code,        \* <<>> while running, <<status>> once the process ended
    cause,            \* why the process ended
    config,           \* main's config: <<>> or <<Config>>
    fans,             \* main's fans (init_fans' all_fans while it runs)
    idx,              \* position of the for loop (init_fans', then main's)
    sensors,          \* the last get_current_temp call
    cur_temp,         \* value get_current_temp returned (a temporary of line 210)
    speed,            \* value calc_speed returned (a temporary of line 210)
    wrote,            \* the last set_speed call: [fan, ok, text]
    io,               \* file operations performed by this execution
    loads,            \* the Config::get calls so far, over all executions
    runs              \* executions of the binary so far

vars ==
    << os, overflow_checks, cfg_file, hw_n, manual, pc, exit_code, cause,
       config, fans, idx, sensors, cur_temp, speed, wrote, io, loads, runs >>

env == << os, overflow_checks, hw_n >>

NoWrite == [fan |-> 0, ok |-> FALSE, text |-> <<>>]

\* Exit status of a Rust process that panicked.
PanicStatus == 101

OsNames == {"linux", "macos"}

Init ==
    /\ os \in OsNames
    /\ overflow_checks \in BOOLEAN
    /\ cfg_file \in ConfigFiles
    /\ hw_n \in 0..MaxFans
    /\ manual = [i \in 1..hw_n |-> <<"0">>]
    /\ pc = "main"
    /\ exit_code = <<>>
    /\ cause = ""
    /\ config = <<>>
    /\ fans = <<>>
    /\ idx = 0
    /\ sensors = NoSensors
    /\ cur_temp = 0
    /\ speed = 0
    /\ wrote = NoWrite
    /\ io = {}
    /\ loads = <<>>
    /\ runs = 1

\* The process ends with the status, for the reason given.
Halt(status, why) ==
    /\ pc' = "halted"
    /\ exit_code' = <<status>>
    /\ cause' = why

\* CheckSupportedEnv with a fault: the unsupported platform exits with 1.
CheckSupportedEnvStatus1 ==
    /\ pc = "main"
    /\ IF os # "linux"
       THEN Halt(1, "unsupported_os")
       ELSE pc' = "config" /\ UNCHANGED <<exit_code, cause>>
    /\ UNCHANGED <<env, cfg_file, manual, config, fans, idx, sensors,
                   cur_temp, speed, wrote, io, loads, runs>>

\* main, lines 195-198: check_supported_env.
CheckSupportedEnv ==
    /\ pc = "main"
    /\ IF os # "linux"
       THEN Halt(2, "unsupported_os")
       ELSE pc' = "config" /\ UNCHANGED <<exit_code, cause>>
    /\ UNCHANGED <<env, cfg_file, manual, config, fans, idx, sensors,
                   cur_temp, speed, wrote, io, loads, runs>>

\* main, line 199: Config::get("/etc/t2macd.json").unwrap().
LoadConfig ==
    /\ pc = "config"
    /\ \E w \in WriteOutcomes :
         LET g == ConfigGet(cfg_file, w)
         IN  /\ cfg_file' = g.file
             /\ loads' = Append(loads, [before |-> cfg_file, after |-> g.file,
                                        branch |-> ConfigRead(cfg_file).err,
                                        ok |-> g.ok, config |-> g.config,
                                        wrote |-> g.wrote, werr |-> g.werr])
             /\ io' = io \cup {Io("read", "config", 0)}
                         \cup (IF g.wrote THEN {Io("write", "config", 0)} ELSE {})
             /\ IF g.ok
                THEN /\ config' = <<g.config>>
                     /\ pc' = "init_fans"
                     /\ idx' = 1
                     /\ UNCHANGED <<exit_code, cause>>
                ELSE /\ Halt(PanicStatus, "config_error")
                     /\ UNCHANGED <<config, idx>>
    /\ UNCHANGED <<env, manual, fans, sensors, cur_temp, speed, wrote, runs>>

\* InitFan with a fault: a fan whose construction fails is left out and the
\* loop goes on to the next match.
InitFanSkipsFailed ==
    /\ pc = "init_fans"
    /\ idx <= hw_n
    /\ \E fmax \in MaxFiles, fmin \in MinFiles, mw \in BOOLEAN :
         LET r == FanNew(idx, config[1], fmax, fmin, mw)
         IN  /\ io' = io \cup r.io
             /\ manual' = IF r.manual THEN [manual EXCEPT ![idx] = <<"1">>] ELSE manual
             /\ fans' = IF r.end = "ok" THEN Append(fans, r.fan) ELSE fans
    /\ idx' = idx + 1
    /\ UNCHANGED <<env, cfg_file, config, sensors, cur_temp, speed, wrote,
                   loads, runs, pc, exit_code, cause>>

\* init_fans, lines 150-155: one turn of the loop over the glob's matches.
InitFan ==
    /\ pc = "init_fans"
    /\ idx <= hw_n
    /\ \E fmax \in MaxFiles, fmin \in MinFiles, mw \in BOOLEAN :
         LET r == FanNew(idx, config[1], fmax, fmin, mw)
         IN  /\ io' = io \cup r.io
             /\ manual' = IF r.manual THEN [manual EXCEPT ![idx] = <<"1">>] ELSE manual
             /\ IF r.end = "ok"
                THEN /\ fans' = Append(fans, r.fan)
                     /\ idx' = idx + 1
                     /\ UNCHANGED <<pc, exit_code, cause>>
                ELSE /\ Halt(PanicStatus, IF r.end = "err" THEN "init_fans_error"
                                                            ELSE "fan_parse_panic")
                     /\ UNCHANGED <<fans, idx>>
    /\ UNCHANGED <<env, cfg_file, config, sensors, cur_temp, speed, wrote,
                   loads, runs>>

\* InitFansDone with a fault: the check for an empty fan list is missing.
InitFansDoneNoCheck ==
    /\ pc = "init_fans"
    /\ idx = hw_n + 1
    /\ pc' = "get_temp" /\ idx' = 1 /\ UNCHANGED <<exit_code, cause>>
    /\ UNCHANGED <<env, cfg_file, manual, config, fans, sensors, cur_temp,
                   speed, wrote, io, loads, runs>>

\* init_fans returns (line 156); main, lines 204-207: no fan, exit status 1.
InitFansDone ==
    /\ pc = "init_fans"
    /\ idx = hw_n + 1
    /\ IF Len(fans) = 0
       THEN Halt(1, "no_fans") /\ UNCHANGED idx
       ELSE pc' = "get_temp" /\ idx' = 1 /\ UNCHANGED <<exit_code, cause>>
    /\ UNCHANGED <<env, cfg_file, manual, config, fans, sensors, cur_temp,
                   speed, wrote, io, loads, runs>>

\* main, line 210: get_current_temp() for fans[idx], its CPU half.
ReadCpuTemp ==
    /\ pc = "get_temp"
    /\ \E cpu_n \in 0..MaxMatches, cpu_file \in SensorFiles :
         LET r == ReadCpu(cpu_n, cpu_file)
         IN  /\ sensors' = Sensors(cpu_n, r.end, r.val, 0)
             /\ IF r.end = "ok"
                THEN pc' = "get_gpu_temp" /\ UNCHANGED <<exit_code, cause>>
                ELSE Halt(PanicStatus, "sensor_panic")
    /\ io' = io \cup {Io("read", "cpu_temp", 0)}
    /\ UNCHANGED <<env, cfg_file, manual, config, fans, idx, cur_temp, speed, wrote,
                   loads, runs>>

\* ReadGpuTemp with a fault: when the GPU cannot be read the fan is skipped
\* and the loop goes on.
ReadGpuTempSkips ==
    /\ pc = "get_gpu_temp"
    /\ \E gpu_lit \in SensorFiles \cup {NoFile} :
         LET r == ReadGpu(gpu_lit)
         IN  /\ sensors' = Sensors(0, r.end, sensors.cpu_temp, r.val)
             /\ IF r.end = "ok"
                THEN /\ cur_temp' = MaxTemp(sensors.cpu_temp, r.val)
                     /\ pc' = "calc_speed"
                     /\ UNCHANGED idx
                ELSE /\ pc' = "get_temp"
                     /\ idx' = (IF idx = Len(fans) THEN 1 ELSE idx + 1)
                     /\ UNCHANGED cur_temp
    /\ io' = io \cup {Io("read", "gpu_temp", 0)}
    /\ UNCHANGED <<env, cfg_file, manual, config, fans, speed, wrote, loads, runs,
                   exit_code, cause>>

\* get_current_temp, its GPU half and the choice of the larger reading.
ReadGpuTemp ==
    /\ pc = "get_gpu_temp"
    /\ \E gpu_lit \in SensorFiles \cup {NoFile} :
         LET r == ReadGpu(gpu_lit)
         IN  /\ sensors' = Sensors(0, r.end, sensors.cpu_temp, r.val)
             /\ IF r.end = "ok"
                THEN /\ cur_temp' = MaxTemp(sensors.cpu_temp, r.val)
                     /\ pc' = "calc_speed"
                     /\ UNCHANGED <<exit_code, cause>>
                ELSE /\ Halt(PanicStatus, "sensor_panic")
                     /\ UNCHANGED cur_temp
    /\ io' = io \cup {Io("read", "gpu_temp", 0)}
    /\ UNCHANGED <<env, cfg_file, manual, config, fans, idx, speed, wrote, loads, runs>>

\* main, line 210: fans[idx].calc_speed(current_temp, &config).
Calc ==
    /\ pc = "calc_speed"
    /\ LET r == CalcSpeed(fans[idx], cur_temp, config[1], overflow_checks)
       IN  IF r.panic
           THEN Halt(PanicStatus, "arithmetic_panic") /\ UNCHANGED speed
           ELSE pc' = "set_speed" /\ speed' = r.val /\ UNCHANGED <<exit_code, cause>>
    /\ sensors' = NoSensors
    /\ UNCHANGED <<env, cfg_file, manual, config, fans, idx, cur_temp, wrote,
                   io, loads, runs>>

\* NextFan with a fault: every other fan is passed over.
NextFanSkips(i, n) == IF i + 2 > n THEN 1 ELSE i + 2

\* The fan after position i in main's for loop; after the last, the loop
\* statement starts the for loop again at the first.
NextFan(i, n) == IF i = n THEN 1 ELSE i + 1

\* Fan::set_speed: the text written to _output.
SpeedText(s) == U32ToString(s)

\* SetSpeed with a fault: a failed write ends the process.
SetSpeedErrorFatal ==
    /\ pc = "set_speed"
    /\ \E ok \in BOOLEAN :
         /\ wrote' = [fan |-> idx, ok |-> ok, text |-> SpeedText(speed)]
         /\ IF ok
            THEN /\ idx' = NextFan(idx, Len(fans))
                 /\ pc' = "get_temp"
                 /\ UNCHANGED <<exit_code, cause>>
            ELSE /\ Halt(PanicStatus, "set_speed_error")
                 /\ UNCHANGED idx
    /\ io' = io \cup {Io("write", "_output", fans[idx].path)}
    /\ cur_temp' = 0
    /\ speed' = 0
    /\ UNCHANGED <<env, cfg_file, manual, config, fans, sensors, loads, runs>>

\* SetSpeed with a fault: the speed is written to the fan's _manual file.
SetSpeedWrongFile ==
    /\ pc = "set_speed"
    /\ \E ok \in BOOLEAN :
         /\ wrote' = [fan |-> idx, ok |-> ok, text |-> SpeedText(speed)]
         /\ manual' = IF ok THEN [manual EXCEPT ![fans[idx].path] = SpeedText(speed)]
                      ELSE manual
    /\ io' = io \cup {Io("write", "_manual", fans[idx].path)}
    /\ idx' = NextFan(idx, Len(fans))
    /\ pc' = "get_temp"
    /\ cur_temp' = 0
    /\ speed' = 0
    /\ UNCHANGED <<env, cfg_file, config, fans, sensors, exit_code, cause,
                   loads, runs>>

\* main, lines 210-213: fans[idx].set_speed(speed); an error is printed and
\* the loop goes on.
SetSpeed ==
    /\ pc = "set_speed"
    /\ \E ok \in BOOLEAN : wrote' = [fan |-> idx, ok |-> ok, text |-> SpeedText(speed)]
    /\ io' = io \cup {Io("write", "_output", fans[idx].path)}
    /\ idx' = NextFan(idx, Len(fans))
    /\ pc' = "get_temp"
    /\ cur_temp' = 0
    /\ speed' = 0
    /\ UNCHANGED <<env, cfg_file, manual, config, fans, sensors, exit_code, cause,
                   loads, runs>>

Next ==
    \/ CheckSupportedEnv
    \/ LoadConfig
    \/ InitFan
    \/ InitFansDone
    \/ ReadCpuTemp
    \/ ReadGpuTemp
    \/ Calc
    \/ SetSpeed

Spec == Init /\ [][Next]_vars

\* The binary is executed again after the process ended: the files are as
\* the previous execution left them.
Restart ==
    /\ pc = "halted"
    /\ runs < MaxRuns
    /\ runs' = runs + 1
    /\ pc' = "main"
    /\ exit_code' = <<>>
    /\ cause' = ""
    /\ config' = <<>>
    /\ fans' = <<>>
    /\ idx' = 0
    /\ sensors' = NoSensors
    /\ cur_temp' = 0
    /\ speed' = 0
    /\ wrote' = NoWrite
    /\ io' = {}
    /\ UNCHANGED <<env, cfg_file, manual, loads>>

NextRestart == Next \/ Restart

SpecRestart == Init /\ [][NextRestart]_vars

(* ------------------------------ claims --------------------------------- *)

Running == pc \in {"get_temp", "get_gpu_temp", "calc_speed", "set_speed"}

FanFileIo == {x \in io : x.fan # 0}

SensorIo == {x \in io : x.obj \in {"cpu_temp", "gpu_temp"}}

\* C1: a failed speed write is absorbed.  A step in which set_speed fails for
\* the fan at position idx leaves the process running, without an exit
\* status, at the sensor read for the next fan of the iteration or, after
\* the last fan, for the first fan of the next iteration.
C1_WriteFailureAbsorbed ==
    [][ (pc = "set_speed" /\ wrote'.fan = idx /\ ~wrote'.ok)
          => /\ pc' = "get_temp"
             /\ exit_code' = <<>>
             /\ fans' = fans
             /\ idx' = (IF idx < Len(fans) THEN idx + 1 ELSE 1) ]_vars

\* After the write to fan 1 failed, fan 2 of the same iteration has been
\* read for and computed and is at its write attempt.
C1_Witness ==
    /\ pc = "set_speed"
    /\ idx = 2
    /\ wrote.fan = 1
    /\ ~wrote.ok

\* C2: when the config file is absent, Config::get returns Ok with the
\* default Config (LINEAR, 80, 100) after attempting to write it, whether the
\* write succeeds or fails, and main goes on to fan discovery: it holds that
\* Config and has not ended on a config error.
C2_AbsentGivesDefault ==
    \A i \in DOMAIN loads :
        loads[i].before.st = "absent"
          => /\ loads[i].ok
             /\ loads[i].wrote
             /\ loads[i].config = [fan_curve |-> "LINEAR", min_temp |-> 80, max_temp |-> 100]
             /\ (i = Len(loads) =>
                   /\ config = <<loads[i].config>>
                   /\ cause # "config_error"
                   /\ pc # "config")

\* The file was absent, the write of the default failed, and discovery has
\* constructed a fan.
C2_Witness ==
    /\ Len(loads) = 1
    /\ loads[1].before.st = "absent"
    /\ loads[1].werr = "WriteError"
    /\ Len(fans) >= 1

\* C3: when the config file exists and does not parse, Config::get returns
\* the default Config and writes nothing: the file is afterwards what it was
\* before, and every later load finds the same text and does the same.
C3_CorruptPreserved ==
    \A i \in DOMAIN loads :
        (loads[i].before.st = "ok" /\ ~ConfigFromJson(loads[i].before.text).ok)
          => /\ loads[i].ok
             /\ loads[i].config = [fan_curve |-> "LINEAR", min_temp |-> 80, max_temp |-> 100]
             /\ ~loads[i].wrote
             /\ loads[i].after = loads[i].before
             /\ \A j \in DOMAIN loads :
                   j > i => /\ loads[j].before = loads[i].before
                            /\ loads[j].after = loads[i].before
             /\ (i = Len(loads) => cfg_file = loads[i].before)

\* A file that does not parse has been loaded twice.
C3_Witness ==
    /\ Len(loads) = 2
    /\ loads[1].before.st = "ok"
    /\ ~ConfigFromJson(loads[1].before.text).ok
    /\ loads[2].ok

\* C4: when reading the config file fails and the file is not absent,
\* Config::get returns IoError and writes nothing, and the process ends in
\* startup: no fan is constructed, no fan file and no sensor is read or
\* written, and the loop is not entered.
C4_IoErrorFatal ==
    \A i \in DOMAIN loads :
        loads[i].before.st = "unreadable"
          => /\ ~loads[i].ok
             /\ ~loads[i].wrote
             /\ loads[i].after = loads[i].before
             /\ (i = Len(loads) =>
                   /\ pc = "halted"
                   /\ exit_code # <<>> /\ exit_code # <<0>>
                   /\ config = <<>>
                   /\ fans = <<>>
                   /\ FanFileIo = {}
                   /\ SensorIo = {}
                   /\ \A k \in DOMAIN manual : manual[k] = <<"0">>)

\* The read of an existing config file failed and the process has ended,
\* where fans were there to be discovered.
C4_Witness ==
    /\ Len(loads) = 1
    /\ loads[1].before.st = "unreadable"
    /\ pc = "halted"
    /\ hw_n >= 1

\* C5 as stated: after a load of an absent file the file exists with the
\* default content, and a second load returns the same Config through the
\* 'exists and parses' branch without writing.
C5_Original ==
    \A i \in DOMAIN loads :
        loads[i].before.st = "absent"
          => /\ loads[i].after = File("ok", ConfigToJson(loads[i].config))
             /\ (i + 1 \in DOMAIN loads =>
                   /\ loads[i + 1].ok
                   /\ loads[i + 1].config = loads[i].config
                   /\ loads[i + 1].branch = ""
                   /\ ~loads[i + 1].wrote)

\* C5, amended: a load of an absent file returns the default values, and a
\* second load returns the same Config.  When the write of the default
\* succeeded, the file then exists with the default content and the second
\* load takes the 'exists and parses' branch without writing.
C5_RoundTrip ==
    \A i \in DOMAIN loads :
        loads[i].before.st = "absent"
          => /\ loads[i].ok
             /\ loads[i].config = [fan_curve |-> "LINEAR", min_temp |-> 80, max_temp |-> 100]
             /\ (loads[i].werr = "" =>
                   /\ loads[i].after.st = "ok"
                   /\ loads[i].after.text.wf
                   /\ ValuesOf(loads[i].after.text, "min_temp") = {Num(80)}
                   /\ ValuesOf(loads[i].after.text, "max_temp") = {Num(100)}
                   /\ ValuesOf(loads[i].after.text, "fan_curve") = {Str("LINEAR")})
             /\ (i + 1 \in DOMAIN loads =>
                   /\ loads[i + 1].ok
                   /\ loads[i + 1].config = loads[i].config
                   /\ (loads[i].werr = "" =>
                         /\ loads[i + 1].branch = ""
                         /\ ~loads[i + 1].wrote
                         /\ loads[i + 1].after = loads[i].after))

\* An absent file was loaded, the default was written, and the file was
\* loaded again.
C5_Witness ==
    /\ Len(loads) = 2
    /\ loads[1].before.st = "absent"
    /\ loads[1].werr = ""
    /\ loads[2].branch = ""

\* C6: when the fan glob matches no path, the process ends with exit status
\* 1 once the config is loaded: the loop is never entered, no sensor is
\* read and no fan file is read or written.
C6_NoFansExit1 ==
    hw_n = 0
      => /\ ~Running
         /\ SensorIo = {}
         /\ FanFileIo = {}
         /\ fans = <<>>
         /\ (pc = "halted" /\ config # <<>> => exit_code = <<1>>)

\* No path matched, the config was loaded, and the process has ended.
C6_Witness ==
    /\ hw_n = 0
    /\ config # <<>>
    /\ pc = "halted"
    /\ exit_code = <<1>>

\* C7 as stated: with min_temp < max_temp and min_speed <= max_speed, the
\* speed computed for a temperature in [min_temp, max_temp] is min_speed at
\* min_temp and max_speed at max_temp (and lies between the two).
C7_LinearInterpolation ==
    (pc = "set_speed"
       /\ config[1].min_temp < config[1].max_temp
       /\ fans[idx].min_speed <= fans[idx].max_speed
       /\ config[1].min_temp <= cur_temp /\ cur_temp <= config[1].max_temp)
      => /\ fans[idx].min_speed <= speed /\ speed <= fans[idx].max_speed
         /\ (cur_temp = config[1].min_temp => speed = fans[idx].min_speed)
         /\ (cur_temp = config[1].max_temp => speed = fans[idx].max_speed)

\* C8 as stated: the speed computed for a temperature below min_temp is
\* min_speed and for a temperature above max_temp is max_speed.
C8_Clamped ==
    (pc = "set_speed" /\ config[1].min_temp < config[1].max_temp)
      => /\ (cur_temp < config[1].min_temp => speed = fans[idx].min_speed)
         /\ (cur_temp > config[1].max_temp => speed = fans[idx].max_speed)

\* C9: the temperature get_current_temp returns, which calc_speed is called
\* with, is the larger of the CPU reading and the GPU reading.
C9_MaxOfTwo ==
    pc = "calc_speed"
      => /\ sensors.end = "ok"
         /\ cur_temp \in {sensors.cpu_temp, sensors.gpu_temp}
         /\ cur_temp >= sensors.cpu_temp
         /\ cur_temp >= sensors.gpu_temp

\* The CPU read 70 and the GPU read 100: the temperature is 100.
C9_Witness ==
    /\ pc = "calc_speed"
    /\ sensors.cpu_temp = 70
    /\ sensors.gpu_temp = 100
    /\ cur_temp = 100

\* C10 as stated: a sensor reading is produced only when the pattern resolved
\* to exactly one file; with no match, or more than one, the read fails.
C10_ExactlyOneMatch ==
    (pc = "get_gpu_temp" /\ sensors.end = "ok") => sensors.cpu_n = 1

\* The ways get_current_temp can stop short: a read or a parse that failed.
SensorFailures == {"cpu_read", "cpu_parse", "gpu_read", "gpu_parse"}

\* C11: a sensor failure in the control loop is fatal.  A step of
\* get_current_temp whose CPU or GPU reading cannot be had halts the process
\* with a status and without a write to any fan, and a halted process takes
\* no further step: no speed is written to the fan in service or to any
\* other fan afterwards.
C11_SensorFailureFatal ==
    [][ /\ (pc \in {"get_temp", "get_gpu_temp"} /\ sensors'.end \in SensorFailures)
           => /\ pc' = "halted"
              /\ exit_code' = <<PanicStatus>>
              /\ wrote' = wrote
              /\ {x \in io' : x.op = "write"} = {x \in io : x.op = "write"}
        /\ pc = "halted" => (pc' = "halted" /\ wrote' = wrote /\ io' = io) ]_vars

\* The GPU reading failed while fan 2 was in service, after fan 1 got its
\* speed: the process is halted and the last write is still the one to fan 1.
C11_Witness ==
    /\ pc = "halted"
    /\ cause = "sensor_panic"
    /\ sensors.end = "gpu_read"
    /\ idx = 2
    /\ wrote.fan = 1

\* C12: Fan::new reads _max and _min and then writes "1" to _manual, and a
\* fan is in the collection only when all three succeeded.  So every fan in
\* the collection has "1" in its _manual file, in the control loop the
\* collection holds every discovered fan, and a write to an _output file is
\* made only after the _manual write of every discovered fan.
C12_ManualBeforeOutput ==
    /\ \A k \in DOMAIN fans :
         /\ manual[fans[k].path] = <<"1">>
         /\ {Io("read", "_max", fans[k].path), Io("read", "_min", fans[k].path),
             Io("write", "_manual", fans[k].path)} \subseteq io
    /\ \A i \in 1..hw_n :
         Io("write", "_manual", i) \in io
            => {Io("read", "_max", i), Io("read", "_min", i)} \subseteq io
    /\ Running => (Len(fans) = hw_n /\ \A i \in 1..hw_n : fans[i].path = i)
    /\ (\E x \in io : x.op = "write" /\ x.obj = "_output")
          => \A i \in 1..hw_n :
               Io("write", "_manual", i) \in io /\ manual[i] = <<"1">>

\* Two fans were discovered and one of them has been sent a speed.
C12_Witness ==
    /\ Running
    /\ Len(fans) = 2
    /\ Io("write", "_output", 1) \in io
    /\ manual = [i \in 1..2 |-> <<"1">>]

\* C13: automatic control is never given back.  Every step that changes a
\* _manual file leaves "1" in it, and a _manual file that holds "1" holds
\* "1" after every step, the steps into and out of a halted process and those
\* of a later run of the daemon included.
C13_ManualNeverCleared ==
    [][ \A i \in DOMAIN manual :
          /\ manual[i] = <<"1">> => manual'[i] = <<"1">>
          /\ manual'[i] # manual[i] => manual'[i] = <<"1">> ]_vars

\* A second run of the daemon has halted and fan 1 is still under manual
\* control.
C13_Witness ==
    /\ pc = "halted"
    /\ runs = 2
    /\ hw_n >= 1
    /\ manual[1] = <<"1">>
    /\ Io("write", "_manual", 1) \notin io

\* C14: the exit statuses.  No fan found ends with 1; an unsupported
\* platform ends with 2, decided before the configuration is loaded and
\* before any file is touched; a fan whose bound files cannot be read ends
\* with a status that is neither; and the process never ends with 0.
C14_ExitStatuses ==
    /\ (pc = "halted") = (exit_code # <<>>)
    /\ exit_code # <<0>>
    /\ cause = "no_fans" => exit_code = <<1>>
    /\ (os # "linux" /\ pc # "main")
          => /\ pc = "halted"
             /\ cause = "unsupported_os"
             /\ exit_code = <<2>>
             /\ io = {}
             /\ config = <<>>
             /\ loads = <<>>
    /\ cause = "unsupported_os" => os # "linux"
    /\ cause \in {"init_fans_error", "fan_parse_panic"}
          => (exit_code # <<>> /\ exit_code[1] \notin {0, 1, 2})
    /\ (pc = "halted" /\ fans = <<>> /\ idx > hw_n) => exit_code = <<1>>

\* The _min file of the second fan could not be read.
C14_Witness ==
    /\ pc = "halted"
    /\ cause = "init_fans_error"
    /\ idx = 2
    /\ Io("read", "_min", 2) \in io
    /\ exit_code = <<PanicStatus>>

\* C15: every Config that Config::get returns has min_temp < max_temp, the
\* built-in default and every record parsed from the file alike.
C15_MinBelowMax ==
    /\ config # <<>> => config[1].min_temp < config[1].max_temp
    /\ \A n \in DOMAIN loads :
         loads[n].ok => loads[n].config.min_temp < loads[n].config.max_temp

\* C16: one turn of the loop per fan, in discovery order.  For the fan in
\* service the CPU is read, then the GPU, then the speed is computed from
\* the larger of these two readings, then one write to its _output file is
\* attempted, whatever its outcome; the next fan in service is the next in
\* discovery order, the first one after the last.
C16_ServiceOrder ==
    [][ /\ (pc = "init_fans" /\ pc' = "get_temp") => idx' = 1
        /\ pc = "get_temp"
             => /\ pc' \in {"get_gpu_temp", "halted"}
                /\ idx' = idx /\ wrote' = wrote
                /\ Io("read", "cpu_temp", 0) \in io'
        /\ pc = "get_gpu_temp"
             => /\ pc' \in {"calc_speed", "halted"}
                /\ idx' = idx /\ wrote' = wrote
                /\ Io("read", "gpu_temp", 0) \in io'
                /\ pc' = "calc_speed"
                     => /\ sensors'.cpu_temp = sensors.cpu_temp
                        /\ cur_temp' \in {sensors'.cpu_temp, sensors'.gpu_temp}
                        /\ cur_temp' >= sensors'.cpu_temp
                        /\ cur_temp' >= sensors'.gpu_temp
        /\ pc = "calc_speed"
             => /\ pc' \in {"set_speed", "halted"}
                /\ idx' = idx /\ wrote' = wrote /\ cur_temp' = cur_temp
                /\ pc' = "set_speed"
                     => speed' = CalcSpeed(fans[idx], cur_temp, config[1],
                                           overflow_checks).val
        /\ pc = "set_speed"
             => /\ pc' = "get_temp"
                /\ fans[idx].path = idx
                /\ wrote'.fan = idx
                /\ wrote'.text = SpeedText(speed)
                /\ Io("write", "_output", idx) \in io'
                /\ idx' = (IF idx = Len(fans) THEN 1 ELSE idx + 1) ]_vars

\* The second turn of the loop over two fans: fan 2 was the last one
\* written and the speed of fan 1 is about to be computed again.
C16_Witness ==
    /\ pc = "calc_speed"
    /\ idx = 1
    /\ wrote.fan = 2
    /\ Len(fans) = 2

\* C17: under the only curve there is, a speed computation that completes
\* yields the fan's min_speed, whatever the temperature and the bounds.
C17_ConstantMinSpeed ==
    /\ pc = "set_speed" => speed = fans[idx].min_speed
    /\ wrote.fan # 0 => wrote.text = SpeedText(fans[wrote.fan].min_speed)

\* A speed was computed at 120 degrees, above max_temp, for a fan whose
\* bounds differ.
C17_Witness ==
    /\ pc = "set_speed"
    /\ cur_temp = 120
    /\ fans[idx].max_speed = 6500
    /\ speed = 1350

\* C18: the control loop ends only when a sensor cannot be read: a process
\* that halted after it entered the loop halted in get_current_temp.  (The
\* safety half of the claim; a halt for any other reason ends the infinite
\* service of the fans with both sensors readable.)
C18_OnlySensorsStopLoop ==
    (pc = "halted" /\ Io("read", "cpu_temp", 0) \in io)
       => sensors.end \in SensorFailures

\* C19: the speed computation never aborts: whenever calc_speed is
\* entered, current_temp - min_temp and max_temp - min_temp do not go below
\* zero and the divisor is not zero, and no process ends in it.
C19_NoArithmeticAbort ==
    /\ cause # "arithmetic_panic"
    /\ pc = "calc_speed"
         => /\ ~ULt(cur_temp, config[1].min_temp)
            /\ ~ULt(config[1].max_temp, config[1].min_temp)
            /\ config[1].max_temp # config[1].min_temp

\* C20: discovery is not atomic.  Once Fan::new was entered for match k and
\* gave no fan, the process is halted without a sensor read or a speed
\* write; the fans before k are in the collection with "1" in _manual and
\* no write to _output; no file of a fan after k was read or written.
C20_DiscoveryNotAtomic ==
    \A k \in 1..hw_n :
      (Io("read", "_max", k) \in io /\ \A j \in DOMAIN fans : fans[j].path # k)
        => /\ pc = "halted"
           /\ exit_code = <<PanicStatus>>
           /\ idx = k
           /\ Len(fans) = k - 1
           /\ SensorIo = {}
           /\ wrote = NoWrite
           /\ ~ \E x \in io : x.obj = "_output"
           /\ \A i \in 1..(k - 1) :
                /\ fans[i].path = i
                /\ manual[i] = <<"1">>
                /\ Io("write", "_manual", i) \in io
           /\ \A i \in (k + 1)..hw_n :
                /\ manual[i] = <<"0">>
                /\ ~ \E x \in io : x.fan = i

\* The _max file of the second fan did not hold a number: the first fan is
\* left under manual control with no speed ever sent to it.
C20_Witness ==
    /\ pc = "halted"
    /\ cause = "fan_parse_panic"
    /\ idx = 2
    /\ manual[1] = <<"1">>
    /\ Io("read", "_min", 2) \notin io

====
